---- MODULE Spec2Model ----
(***************************************************************************)
(* Model of the real-time channel engine of the telemedicine desktop       *)
(* backend: src-tauri/src/services/websocket.rs (WebSocketClient and       *)
(* WebSocketManager).                                                      *)
(*                                                                         *)
(* One channel = one WebSocketClient.  Its connect() call does not return  *)
(* after the handshake: it runs start_message_loop, which spawns the       *)
(* receive task, flushes the queue, waits for the receive task to end and  *)
(* then calls attempt_reconnect, which calls connect() again.  That whole  *)
(* call chain runs inside WebSocketManager::create_connection; pc[c] is    *)
(* the position of that chain.  The receive task is a second task (recv).  *)
(* Callers use the manager concurrently; every manager operation holds the *)
(* clients mutex while it delegates to the client (mgrOp).                 *)
(***************************************************************************)
EXTENDS Integers, Sequences, FiniteSets, TLC

\* ---------------------------------------------------------------- bounds
MaxMsg == 3         \* messages ever submitted (ids 1..MaxMsg, in submission order)
MaxSessions == 2    \* successful handshakes per channel
MaxEvents == 2      \* inbound events relayed per channel
MaxUnparsed == 2    \* inbound text frames per channel that fail to parse

\* ------------------------------------------------------ program constants
max_reconnect_attempts == 5
reconnect_delay == 2

\* The connection a behaviour opens.  Clients share nothing but the manager's
\* clients mutex, so one opened connection plus an id that is never opened
\* (for the not-found paths) is the state the per-channel operations act on.
Chan == {1}
\* the connection ids a caller may pass to the manager
ConnIds == {1, 2}

\* Two connections open side by side, and the ids a caller may pass then
\* (3 is never opened)
Pair == {1, 2}
PairIds == {1, 2, 3}

\* the event sinks (receivers of the senders given to add_event_handler)
Sinks == {1, 2}

\* the callers that hold the directly used client
Calls == {1, 2}

\* ConnectionStatus
Disconnected == "Disconnected"
Connecting == "Connecting"
Connected == "Connected"
Reconnecting == "Reconnecting"
ErrorConnFailed == "Error(WebSocket connection failed)"
ErrorMaxExceeded == "Error(Max reconnection attempts exceeded)"
ConnectionStatus ==
  {Disconnected, Connecting, Connected, Reconnecting, ErrorConnFailed, ErrorMaxExceeded}
IsError(s) == s \in {ErrorConnFailed, ErrorMaxExceeded}

VARIABLES
  clients,            \* WebSocketManager.clients: the registered connection ids
  nextId,             \* next fresh connection id (uuid v4: never reused)
  nextMsg,            \* next fresh message id (uuid v4 per submitted message)
  status,             \* connection_status of each client
  queue,              \* message_queue of each client (sequence of message ids)
  reconnect_attempts, \* reconnect_attempts of each client
  pc,                 \* position of the connect() call chain of each client
  flushIdx,           \* process_message_queue: index of the next queue item
  recv,               \* receive task: "none", "live" (in its loop), "ended"
  sessions,           \* successful handshakes so far (session number)
  delivered,          \* messages written by send_message: [id, sess] in order
  relayed,            \* inbound events passed on by the receive task
  mgrOp,              \* manager send holding the clients mutex, or NoOp
  ret,                \* result of the last API call that returned
  failedSince,        \* history: failed reconnect handshakes since last success
  closed              \* history: ids for which close_connection returned Ok

\* A WebSocketClient used directly: its connect() and disconnect() are public
\* and take &self, so several callers holding the same client can have
\* connect() calls in flight at once.
VARIABLES
  connection_status,  \* connection_status of the directly used client
  attempts,           \* its reconnect_attempts
  handshakes,         \* its successful handshakes so far
  callPc,             \* position of each caller's connect() call chain
  callRecv,           \* receive task spawned by each call chain
  callDelay           \* seconds the attempt_reconnect of each call chain sleeps

directVars == <<connection_status, attempts, handshakes, callPc, callRecv,
                callDelay>>

\* Event fan-out.  The events a client's receive task has sent on its event
\* channel are numbered 1..relayed[c] in wire order; the task started by
\* start_event_handler takes them off that channel in the same order.
VARIABLES
  event_handlers,     \* WebSocketManager.event_handlers: registered sinks, in order
  fanned,             \* events of each client already broadcast to the sinks
  sinkBuf,            \* everything sent on each sink's channel, in order
  sinkRead,           \* how much of it the sink's owner has taken off
  sinkClosed,         \* sinks whose receiver has been dropped
  unparsed            \* text frames that failed to parse: for each, the number
                      \* of events the client had passed on when it arrived

fanVars == <<event_handlers, fanned, sinkBuf, sinkRead, sinkClosed, unparsed>>

\* get_all_connection_status: a call in progress holds the clients mutex
\* while it fills its local status_map, one client at a time
VARIABLES
  status_map          \* [busy: a call is in progress, map: what it has filled
                      \* in, and after its return the HashMap it returned]

\* the state the manager-level actions leave alone
extVars == <<directVars, fanVars, status_map>>

mgrVars == <<clients, nextId, nextMsg, status, queue, reconnect_attempts, pc,
             flushIdx, recv, sessions, delivered, relayed, mgrOp, ret,
             failedSince, closed>>

vars == <<mgrVars, extVars>>

NoOp == [chan |-> 0, msg |-> 0]
NoRet == [op |-> "none", chan |-> 0, msg |-> 0, res |-> "none"]
Ret(op, c, m, res) == [op |-> op, chan |-> c, msg |-> m, res |-> res]

Range(s) == {s[i] : i \in 1..Len(s)}
MsgIds(s) == {s[i].id : i \in 1..Len(s)}

\* ------------------------------------------------------------- helpers

\* add_to_queue: queue.push(message)
AddToQueueOverwrite(q, m) == <<m>>
AddToQueueTwice(q, m) == Append(Append(q, m), m)
AddToQueue(q, m) == Append(q, m)

\* process_message_queue: queue.retain(|msg| !processed_messages.contains(&msg.id))
Retain(q, processed) == SelectSeq(q, LAMBDA m : m \notin processed)

\* the message_queue mutex is held by process_message_queue from its first
\* line to its return; add_to_queue and clear_message_queue take it briefly
QueueLockedNever(c) == FALSE
QueueLocked(c) == pc[c] \in {"flush", "blocked"}

\* let mut status_map = HashMap::new()
EmptyMap == [x \in {} |-> Disconnected]
NoCall == [busy |-> FALSE, map |-> EmptyMap]

\* the clients mutex is held by a manager operation until it returns
ClientsLocked == mgrOp # NoOp \/ status_map.busy

\* create_connection, connect failed: self.clients.lock().await.remove(&connection_id)
RemoveFailedKeep(cs, c) == cs
RemoveFailed(cs, c) == cs \ {c}

\* the manager's delegating operations: the client's result when the id is in
\* the map, otherwise Err("Connection not found")
LookupIgnoreMissing(c, res) == res
Lookup(c, res) == IF c \in clients THEN res ELSE "not_found"

\* WebSocketManager::get_connection_status
get_connection_status(c) == IF c \in clients THEN status[c] ELSE "not_found"

\* ---------------------------------------------------------------- Init
Init ==
  /\ clients = {}
  /\ nextId = 1
  /\ nextMsg = 1
  /\ status = [c \in Chan |-> Disconnected]
  /\ queue = [c \in Chan |-> <<>>]
  /\ reconnect_attempts = [c \in Chan |-> 0]
  /\ pc = [c \in Chan |-> "idle"]
  /\ flushIdx = [c \in Chan |-> 1]
  /\ recv = [c \in Chan |-> "none"]
  /\ sessions = [c \in Chan |-> 0]
  /\ delivered = [c \in Chan |-> <<>>]
  /\ relayed = [c \in Chan |-> 0]
  /\ mgrOp = NoOp
  /\ ret = NoRet
  /\ failedSince = [c \in Chan |-> 0]
  /\ closed = {}
  /\ connection_status = Disconnected
  /\ attempts = 0
  /\ handshakes = 0
  /\ callPc = [k \in Calls |-> "idle"]
  /\ callRecv = [k \in Calls |-> "none"]
  /\ callDelay = [k \in Calls |-> 0]
  /\ event_handlers = <<>>
  /\ fanned = [c \in Chan |-> 0]
  /\ sinkBuf = [s \in Sinks |-> <<>>]
  /\ sinkRead = [s \in Sinks |-> 0]
  /\ sinkClosed = {}
  /\ unparsed = [c \in DOMAIN fanned |-> <<>>]
  /\ status_map = NoCall

\* ------------------------------------------- WebSocketManager operations

\* create_connection up to the call of connect(): new client, insert in map
CreateConnection ==
  /\ nextId \in DOMAIN pc
  /\ ~ClientsLocked
  /\ clients' = clients \cup {nextId}
  /\ pc' = [pc EXCEPT ![nextId] = "created"]
  /\ nextId' = nextId + 1
  /\ UNCHANGED <<nextMsg, status, queue, reconnect_attempts, flushIdx, recv,
                 sessions, delivered, relayed, mgrOp, ret, failedSince, closed>>
  /\ UNCHANGED extVars

\* create_connection after connect() returned Err: remove the id, return Err
CreateFailRemove(c) ==
  /\ pc[c] = "remove"
  /\ ~ClientsLocked
  /\ clients' = RemoveFailed(clients, c)
  /\ pc' = [pc EXCEPT ![c] = "returned"]
  /\ ret' = Ret("create", c, 0, "conn_error")
  /\ UNCHANGED <<nextId, nextMsg, status, queue, reconnect_attempts, flushIdx,
                 recv, sessions, delivered, relayed, mgrOp, failedSince, closed>>
  /\ UNCHANGED extVars

\* close_connection: Ok(()) when remove() found the client, otherwise
\* Err("Connection not found")
CloseResultAlwaysOk(found) == "ok"
CloseResult(found) == IF found THEN "ok" ELSE "not_found"

\* close_connection: remove from the map, then client.disconnect()
CloseConnection(c) ==
  /\ ~ClientsLocked
  /\ ret' = Ret("close", c, 0, CloseResult(c \in clients))
  /\ IF c \in clients
       THEN /\ clients' = clients \ {c}
            /\ status' = [status EXCEPT ![c] = Disconnected]
            /\ closed' = closed \cup {c}
       ELSE UNCHANGED <<clients, status, closed>>
  /\ UNCHANGED <<nextId, nextMsg, queue, reconnect_attempts, pc, flushIdx, recv,
                 sessions, delivered, relayed, mgrOp, failedSince>>
  /\ UNCHANGED extVars

\* get_connection_status
GetStatus(c) ==
  /\ ~ClientsLocked
  /\ ret' = Ret("status", c, 0, get_connection_status(c))
  /\ UNCHANGED <<clients, nextId, nextMsg, status, queue, reconnect_attempts, pc,
                 flushIdx, recv, sessions, delivered, relayed, mgrOp,
                 failedSince, closed>>
  /\ UNCHANGED extVars

\* status_map.insert(id.clone(), ...)
InsertOverwrite(m, id, st) == [x \in {id} |-> st]
Insert(m, id, st) == [x \in DOMAIN m \cup {id} |-> IF x = id THEN st ELSE m[x]]

\* get_all_connection_status: new map, lock the clients
AllStatusBegin ==
  /\ ~ClientsLocked
  /\ status_map' = [busy |-> TRUE, map |-> EmptyMap]
  /\ UNCHANGED <<mgrVars, directVars, fanVars>>

\* one iteration of for (id, client) in clients.iter(), in the order the
\* HashMap gives: insert the status the client has now
AllStatusInsert(c) ==
  /\ status_map.busy
  /\ c \in clients \ DOMAIN status_map.map
  /\ status_map' = [status_map EXCEPT !.map = Insert(@, c, status[c])]
  /\ UNCHANGED <<mgrVars, directVars, fanVars>>

\* every client visited: release the mutex, return status_map
AllStatusReturn ==
  /\ status_map.busy
  /\ clients \ DOMAIN status_map.map = {}
  /\ status_map' = NoCall
  /\ ret' = Ret("all_status", 0, 0, "ok")
  /\ UNCHANGED <<clients, nextId, nextMsg, status, queue, reconnect_attempts, pc,
                 flushIdx, recv, sessions, delivered, relayed, mgrOp,
                 failedSince, closed>>
  /\ UNCHANGED <<directVars, fanVars>>

\* send_message, first part: look the client up (taking the clients mutex),
\* read the status; Connected: write the message and return Ok; otherwise go
\* on to add_to_queue, which needs the queue mutex
SendBegin(c) ==
  /\ nextMsg <= MaxMsg
  /\ ~ClientsLocked
  /\ nextMsg' = nextMsg + 1
  /\ IF c \notin clients
       THEN /\ ret' = Ret("send", c, nextMsg, Lookup(c, "ok"))
            /\ UNCHANGED <<delivered, mgrOp>>
       ELSE IF status[c] = Connected
         THEN /\ delivered' = [delivered EXCEPT
                     ![c] = Append(@, [id |-> nextMsg, sess |-> sessions[c]])]
              /\ ret' = Ret("send", c, nextMsg, "ok")
              /\ UNCHANGED mgrOp
         ELSE /\ mgrOp' = [chan |-> c, msg |-> nextMsg]
              /\ UNCHANGED <<delivered, ret>>
  /\ UNCHANGED <<clients, nextId, status, queue, reconnect_attempts, pc, flushIdx,
                 recv, sessions, relayed, failedSince, closed>>
  /\ UNCHANGED extVars

\* the message_type strings a caller of the command passes
TypeStrings == {"text", "image", "voice", "file", "template", "TEXT"}

\* send_websocket_message: match request.message_type.as_str()
message_typeLenient(ty) == "Ok"
message_type(ty) == IF ty \in {"text", "image", "voice", "file"} THEN "Ok" ELSE "Err"

\* the command send_websocket_message: an unknown type returns the error
\* before the manager is locked or a message is made; a known type goes on
\* to WebSocketManager::send_message
SendWebsocketMessage(c, ty) ==
  IF message_type(ty) = "Err"
    THEN /\ ret' = Ret("send_websocket_message", c, 0, "invalid_type")
         /\ UNCHANGED <<clients, nextId, nextMsg, status, queue,
                        reconnect_attempts, pc, flushIdx, recv, sessions,
                        delivered, relayed, mgrOp, failedSince, closed>>
         /\ UNCHANGED extVars
    ELSE SendBegin(c)

\* send_message, second part: add_to_queue, return the "queued" error
SendEnqueue(c) ==
  /\ mgrOp # NoOp
  /\ mgrOp.chan = c
  /\ ~QueueLocked(c)
  /\ queue' = [queue EXCEPT ![c] = AddToQueue(@, mgrOp.msg)]
  /\ ret' = Ret("send", c, mgrOp.msg, "queued")
  /\ mgrOp' = NoOp
  /\ UNCHANGED <<clients, nextId, nextMsg, status, reconnect_attempts, pc,
                 flushIdx, recv, sessions, delivered, relayed, failedSince, closed>>
  /\ UNCHANGED extVars

\* subscribe_to_consultation, unsubscribe_from_consultation, send_read_receipt
\* and send_typing_status
ControlOps == {"subscribe", "unsubscribe", "read_receipt", "typing"}

\* what the client does for op: whatever its status it builds the JSON text
\* of the frame, prints it and returns Ok(())
ControlResult(op, st) == "printed"

\* the client's queue after op: none of the four calls add_to_queue
QueueAfterControlEnqueue(q, op) == Append(q, 0)
QueueAfterControl(q, op) == q

\* one of ControlOps: the manager looks the client up and delegates
Delegate(op, c) ==
  /\ ~ClientsLocked
  /\ IF c \in clients
       THEN /\ ret' = Ret(op, c, 0, ControlResult(op, status[c]))
            /\ queue' = [queue EXCEPT ![c] = QueueAfterControl(@, op)]
       ELSE /\ ret' = Ret(op, c, 0, Lookup(c, "printed"))
            /\ UNCHANGED queue
  /\ UNCHANGED <<clients, nextId, nextMsg, status, reconnect_attempts, pc,
                 flushIdx, recv, sessions, delivered, relayed, mgrOp,
                 failedSince, closed>>
  /\ UNCHANGED extVars

\* ------------------------------------------------ WebSocketClient, public

\* clear_message_queue
ClearQueue(c) ==
  /\ pc[c] # "idle"
  /\ ~QueueLocked(c)
  /\ queue[c] # <<>>
  /\ queue' = [queue EXCEPT ![c] = <<>>]
  /\ ret' = Ret("clear", c, 0, "ok")
  /\ UNCHANGED <<clients, nextId, nextMsg, status, reconnect_attempts, pc,
                 flushIdx, recv, sessions, delivered, relayed, mgrOp,
                 failedSince, closed>>
  /\ UNCHANGED extVars

\* ------------------------------------- the connect() call chain of a client

\* connect(), first line: set Connecting (called by create_connection, or by
\* attempt_reconnect when its sleep has elapsed)
ConnectStart(c) ==
  /\ pc[c] \in {"created", "backoff"}
  /\ status' = [status EXCEPT ![c] = Connecting]
  /\ pc' = [pc EXCEPT ![c] = "handshake"]
  /\ UNCHANGED <<clients, nextId, nextMsg, queue, reconnect_attempts, flushIdx,
                 recv, sessions, delivered, relayed, mgrOp, ret, failedSince,
                 closed>>
  /\ UNCHANGED extVars

\* connect(), connect_async returned Ok: set Connected
HandshakeOk(c) ==
  /\ pc[c] = "handshake"
  /\ sessions[c] < MaxSessions
  /\ status' = [status EXCEPT ![c] = Connected]
  /\ sessions' = [sessions EXCEPT ![c] = @ + 1]
  /\ failedSince' = [failedSince EXCEPT ![c] = 0]
  /\ pc' = [pc EXCEPT ![c] = "reset"]
  /\ UNCHANGED <<clients, nextId, nextMsg, queue, reconnect_attempts, flushIdx,
                 recv, delivered, relayed, mgrOp, ret, closed>>
  /\ UNCHANGED extVars

\* attempt_reconnect, connect() returned Err: println, then return; every
\* caller up the chain returns too (create_connection with Ok(id))
AfterReconnectFailedRetry == "recv_wait"
AfterReconnectFailed == "returned"

\* create_connection, connect() returned Err: go on to remove the id and
\* return the error (no attempt_reconnect)
AfterFirstConnectFailedRetry == "recv_wait"
AfterFirstConnectFailed == "remove"

\* connect(), connect_async returned Err: set Error, return Err.  The first
\* connect returns it to create_connection; a reconnect returns it to
\* attempt_reconnect, which logs it, and the whole chain returns Ok(id).
HandshakeFail(c) ==
  /\ pc[c] = "handshake"
  /\ status' = [status EXCEPT ![c] = ErrorConnFailed]
  /\ IF sessions[c] = 0
       THEN /\ pc' = [pc EXCEPT ![c] = AfterFirstConnectFailed]
            /\ UNCHANGED <<ret, failedSince>>
       ELSE /\ pc' = [pc EXCEPT ![c] = AfterReconnectFailed]
            /\ failedSince' = [failedSince EXCEPT ![c] = @ + 1]
            /\ ret' = Ret("create", c, 0, "ok")
  /\ UNCHANGED <<clients, nextId, nextMsg, queue, reconnect_attempts, flushIdx,
                 recv, sessions, delivered, relayed, mgrOp, closed>>
  /\ UNCHANGED extVars

\* reset_reconnect_attempts
ResetAttemptsKeep(n) == n
ResetAttempts(n) == 0

\* connect(): reset_reconnect_attempts; start_message_loop: spawn the receive
\* task, process_message_queue takes the queue mutex
ResetAndSpawn(c) ==
  /\ pc[c] = "reset"
  /\ reconnect_attempts' = [reconnect_attempts EXCEPT ![c] = ResetAttempts(@)]
  /\ recv' = [recv EXCEPT ![c] = "live"]
  /\ flushIdx' = [flushIdx EXCEPT ![c] = 1]
  /\ pc' = [pc EXCEPT ![c] = "flush"]
  /\ UNCHANGED <<clients, nextId, nextMsg, status, queue, sessions, delivered,
                 relayed, mgrOp, ret, failedSince, closed>>
  /\ UNCHANGED extVars

\* process_message_queue, one iteration: send_message(message.clone()).
\* Connected: the message is written, its id pushed on processed_messages.
\* Not Connected: send_message calls add_to_queue, which waits for the queue
\* mutex this very task holds: the task never runs again.
FlushSend(c) ==
  /\ pc[c] = "flush"
  /\ flushIdx[c] <= Len(queue[c])
  /\ IF status[c] = Connected
       THEN /\ delivered' = [delivered EXCEPT
                   ![c] = Append(@, [id |-> queue[c][flushIdx[c]], sess |-> sessions[c]])]
            /\ flushIdx' = [flushIdx EXCEPT ![c] = @ + 1]
            /\ UNCHANGED pc
       ELSE /\ pc' = [pc EXCEPT ![c] = "blocked"]
            /\ UNCHANGED <<delivered, flushIdx>>
  /\ UNCHANGED <<clients, nextId, nextMsg, status, queue, reconnect_attempts,
                 recv, sessions, relayed, mgrOp, ret, failedSince, closed>>
  /\ UNCHANGED extVars

\* process_message_queue, after the loop: retain, release the mutex; then
\* start_message_loop waits for the receive task
FlushEnd(c) ==
  /\ pc[c] = "flush"
  /\ flushIdx[c] > Len(queue[c])
  /\ queue' = [queue EXCEPT
        ![c] = Retain(@, Range(SubSeq(@, 1, flushIdx[c] - 1)))]
  /\ pc' = [pc EXCEPT ![c] = "recv_wait"]
  /\ UNCHANGED <<clients, nextId, nextMsg, status, reconnect_attempts, flushIdx,
                 recv, sessions, delivered, relayed, mgrOp, ret, failedSince,
                 closed>>
  /\ UNCHANGED extVars

\* increment_reconnect_attempts
IncrementTwice(n) == n + 2
Increment(n) == n + 1

\* start_message_loop: receive_task.await returns when the task has finished
ReceiveTaskDoneAlways(r) == TRUE
ReceiveTaskDone(r) == r = "none"

\* attempt_reconnect up to its sleep (the receive task has finished)
AttemptReconnect(c) ==
  /\ pc[c] = "recv_wait"
  /\ ReceiveTaskDone(recv[c])
  /\ reconnect_attempts' = [reconnect_attempts EXCEPT ![c] = Increment(@)]
  /\ IF reconnect_attempts'[c] <= max_reconnect_attempts
       THEN /\ status' = [status EXCEPT ![c] = Reconnecting]
            /\ pc' = [pc EXCEPT ![c] = "backoff"]
            /\ UNCHANGED ret
       ELSE /\ status' = [status EXCEPT ![c] = ErrorMaxExceeded]
            /\ pc' = [pc EXCEPT ![c] = "returned"]
            /\ ret' = Ret("create", c, 0, "ok")
  /\ UNCHANGED <<clients, nextId, nextMsg, queue, flushIdx, recv, sessions,
                 delivered, relayed, mgrOp, failedSince, closed>>
  /\ UNCHANGED extVars

\* ------------------------------------------------------- the receive task

\* a text frame that decodes to an event: event_sender.send(event)
RecvEvent(c) ==
  /\ recv[c] = "live"
  /\ relayed[c] < MaxEvents
  /\ relayed' = [relayed EXCEPT ![c] = @ + 1]
  /\ UNCHANGED <<clients, nextId, nextMsg, status, queue, reconnect_attempts, pc,
                 flushIdx, recv, sessions, delivered, mgrOp, ret, failedSince,
                 closed>>
  /\ UNCHANGED extVars

\* WebSocketEvent is tagged by "type" with six variants; a text frame is
\* named here by its tag, or by what is wrong with it
EventTags ==
  {"message", "consultation_update", "typing", "read_receipt",
   "connection_ack", "error"}
TextFrames == EventTags \cup {"unknown_type", "not_json"}

\* serde_json::from_str::<WebSocketEvent>(&text)
from_str(t) == IF t \in EventTags THEN "Ok" ELSE "Err"

\* the receive loop after a text frame that failed to parse: the else branch
\* prints and falls through to the next iteration
RecvAfterUnparsedBreak(r) == "ended"
RecvAfterUnparsed(r) == r

\* a text frame that does not decode: println!("Failed to parse ...")
RecvUnparsed(c, t) ==
  /\ recv[c] = "live"
  /\ from_str(t) = "Err"
  /\ Len(unparsed[c]) < MaxUnparsed
  /\ unparsed' = [unparsed EXCEPT ![c] = Append(@, relayed[c])]
  /\ recv' = [recv EXCEPT ![c] = RecvAfterUnparsed(@)]
  /\ UNCHANGED <<clients, nextId, nextMsg, status, queue, reconnect_attempts, pc,
                 flushIdx, sessions, delivered, relayed, mgrOp, ret,
                 failedSince, closed>>
  /\ UNCHANGED <<directVars, event_handlers, fanned, sinkBuf, sinkRead, sinkClosed,
                 status_map>>

\* a Close frame, a read error or the end of the stream: leave the loop
SessionEnd(c) ==
  /\ recv[c] = "live"
  /\ recv' = [recv EXCEPT ![c] = "ended"]
  /\ UNCHANGED <<clients, nextId, nextMsg, status, queue, reconnect_attempts, pc,
                 flushIdx, sessions, delivered, relayed, mgrOp, ret,
                 failedSince, closed>>
  /\ UNCHANGED extVars

\* the receive task writes the connection_status of its own client
WriteDisconnectedAll(st, c) == [x \in DOMAIN st |-> Disconnected]
WriteReconnecting(st, c) == [st EXCEPT ![c] = Reconnecting]
WriteDisconnectedPartial(st, c) == [st EXCEPT ![c] = "Disconnect"]
WriteDisconnected(st, c) == [st EXCEPT ![c] = Disconnected]

\* after the loop: *connection_status.write().await = Disconnected
RecvExit(c) ==
  /\ recv[c] = "ended"
  /\ status' = WriteDisconnected(status, c)
  /\ recv' = [recv EXCEPT ![c] = "none"]
  /\ UNCHANGED <<clients, nextId, nextMsg, queue, reconnect_attempts, pc,
                 flushIdx, sessions, delivered, relayed, mgrOp, ret,
                 failedSince, closed>>
  /\ UNCHANGED extVars

\* ---------------------------------------------------------------- Next
Next ==
  \/ CreateConnection
  \/ \E c \in Chan : CreateFailRemove(c)
  \/ \E c \in ConnIds : CloseConnection(c)
  \/ \E c \in ConnIds : GetStatus(c)
  \/ \E c \in ConnIds : SendBegin(c)
  \/ \E c \in Chan : SendEnqueue(c)
  \/ \E c \in Chan : ClearQueue(c)
  \/ \E c \in Chan : ConnectStart(c)
  \/ \E c \in Chan : HandshakeOk(c)
  \/ \E c \in Chan : HandshakeFail(c)
  \/ \E c \in Chan : ResetAndSpawn(c)
  \/ \E c \in Chan : FlushSend(c)
  \/ \E c \in Chan : FlushEnd(c)
  \/ \E c \in Chan : AttemptReconnect(c)
  \/ \E c \in Chan : RecvEvent(c)
  \/ \E c \in Chan : SessionEnd(c)
  \/ \E c \in Chan : RecvExit(c)

Spec == Init /\ [][Next]_vars

\* ------------------------------------------- two connections side by side
\* Two create_connection calls have registered their clients; each client has
\* had all but one of its sessions, which dropped, and is in the handshake of
\* its reconnect; it has received its events and the callers have one
\* message left to submit.  Every
\* operation of the manager, the four print-only ones included, is called on
\* both ids and on an id that was never opened.
InitPair ==
  /\ clients = Pair
  /\ nextId = 3
  /\ nextMsg = MaxMsg
  /\ status = [c \in Pair |-> Connecting]
  /\ queue = [c \in Pair |-> <<>>]
  /\ reconnect_attempts = [c \in Pair |-> 1]
  /\ pc = [c \in Pair |-> "handshake"]
  /\ flushIdx = [c \in Pair |-> 1]
  /\ recv = [c \in Pair |-> "none"]
  /\ sessions = [c \in Pair |-> MaxSessions - 1]
  /\ delivered = [c \in Pair |-> <<>>]
  /\ relayed = [c \in Pair |-> MaxEvents]
  /\ mgrOp = NoOp
  /\ ret = NoRet
  /\ failedSince = [c \in Pair |-> 0]
  /\ closed = {}
  /\ connection_status = Disconnected
  /\ attempts = 0
  /\ handshakes = 0
  /\ callPc = [k \in Calls |-> "idle"]
  /\ callRecv = [k \in Calls |-> "none"]
  /\ callDelay = [k \in Calls |-> 0]
  /\ event_handlers = <<>>
  /\ fanned = [c \in Pair |-> 0]
  /\ sinkBuf = [s \in Sinks |-> <<>>]
  /\ sinkRead = [s \in Sinks |-> 0]
  /\ sinkClosed = {}
  /\ unparsed = [c \in DOMAIN fanned |-> <<>>]
  /\ status_map = NoCall

NextPair ==
  \/ \E c \in PairIds : CloseConnection(c)
  \/ \E c \in PairIds : GetStatus(c)
  \/ \E c \in PairIds : SendBegin(c)
  \/ \E c \in PairIds, ty \in TypeStrings : SendWebsocketMessage(c, ty)
  \/ \E c \in Pair : SendEnqueue(c)
  \/ \E op \in ControlOps, c \in PairIds : Delegate(op, c)
  \/ \E c \in Pair : ClearQueue(c)
  \/ \E c \in Pair : ConnectStart(c)
  \/ \E c \in Pair : HandshakeOk(c)
  \/ \E c \in Pair : HandshakeFail(c)
  \/ \E c \in Pair : ResetAndSpawn(c)
  \/ \E c \in Pair : FlushSend(c)
  \/ \E c \in Pair : FlushEnd(c)
  \/ \E c \in Pair : AttemptReconnect(c)
  \/ \E c \in Pair : SessionEnd(c)
  \/ \E c \in Pair : RecvExit(c)

SpecPair == InitPair /\ [][NextPair]_vars

\* ------------------------------------------------------- event fan-out

\* handler.send(event) on an unbounded channel never waits for the receiver
SinkReadyBounded(buf, read) == Len(buf) - read < 1
SinkReady(buf, read) == TRUE

\* the handlers an event is sent to: for handler in handlers_guard.iter();
\* a send to a dropped receiver returns Err and delivers nothing
ReceiversFirstOnly(h, cl) == IF h = <<>> THEN {} ELSE {h[1]} \ cl
Receivers(h, cl) == Range(h) \ cl

\* add_event_handler: push the sender
AddEventHandler(s) ==
  /\ s \notin Range(event_handlers)
  /\ event_handlers' = Append(event_handlers, s)
  /\ UNCHANGED <<fanned, sinkBuf, sinkRead, sinkClosed, unparsed, mgrVars, directVars, status_map>>

\* the task of start_event_handler, one iteration: take the next event of
\* client c off its event channel, lock event_handlers, handler.send(event
\* .clone()) to every handler; a send to a dropped receiver fails and is
\* only printed
Relay(c) ==
  /\ fanned[c] < relayed[c]
  /\ \A s \in Receivers(event_handlers, sinkClosed) :
         SinkReady(sinkBuf[s], sinkRead[s])
  /\ fanned' = [fanned EXCEPT ![c] = @ + 1]
  /\ sinkBuf' = [s \in Sinks |->
        IF s \in Receivers(event_handlers, sinkClosed)
          THEN Append(sinkBuf[s], [chan |-> c, n |-> fanned[c] + 1])
          ELSE sinkBuf[s]]
  /\ UNCHANGED <<event_handlers, sinkRead, sinkClosed, unparsed, mgrVars, directVars, status_map>>

\* the owner of a sink takes the next event off its channel
SinkConsume(s) ==
  /\ s \notin sinkClosed
  /\ sinkRead[s] < Len(sinkBuf[s])
  /\ sinkRead' = [sinkRead EXCEPT ![s] = @ + 1]
  /\ UNCHANGED <<event_handlers, fanned, sinkBuf, sinkClosed, unparsed, mgrVars, directVars, status_map>>

\* the owner of a sink drops its receiver
SinkClose(s) ==
  /\ s \notin sinkClosed
  /\ sinkClosed' = sinkClosed \cup {s}
  /\ UNCHANGED <<event_handlers, fanned, sinkBuf, sinkRead, unparsed, mgrVars, directVars, status_map>>

\* Two connections in their last session, both receive tasks in their loop
\* (the sessions stay up); no sink registered yet.
InitFanout ==
  /\ clients = Pair
  /\ nextId = 3
  /\ nextMsg = 1
  /\ status = [c \in Pair |-> Connected]
  /\ queue = [c \in Pair |-> <<>>]
  /\ reconnect_attempts = [c \in Pair |-> 0]
  /\ pc = [c \in Pair |-> "recv_wait"]
  /\ flushIdx = [c \in Pair |-> 1]
  /\ recv = [c \in Pair |-> "live"]
  /\ sessions = [c \in Pair |-> MaxSessions]
  /\ delivered = [c \in Pair |-> <<>>]
  /\ relayed = [c \in Pair |-> 0]
  /\ mgrOp = NoOp
  /\ ret = NoRet
  /\ failedSince = [c \in Pair |-> 0]
  /\ closed = {}
  /\ connection_status = Disconnected
  /\ attempts = 0
  /\ handshakes = 0
  /\ callPc = [k \in Calls |-> "idle"]
  /\ callRecv = [k \in Calls |-> "none"]
  /\ callDelay = [k \in Calls |-> 0]
  /\ event_handlers = <<>>
  /\ fanned = [c \in Pair |-> 0]
  /\ sinkBuf = [s \in Sinks |-> <<>>]
  /\ sinkRead = [s \in Sinks |-> 0]
  /\ sinkClosed = {}
  /\ unparsed = [c \in DOMAIN fanned |-> <<>>]
  /\ status_map = NoCall

NextFanout ==
  \/ \E s \in Sinks : AddEventHandler(s)
  \/ \E c \in Pair : Relay(c)
  \/ \E s \in Sinks : SinkConsume(s)
  \/ \E s \in Sinks : SinkClose(s)
  \/ \E c \in Pair : RecvEvent(c)

SpecFanout == InitFanout /\ [][NextFanout]_vars

\* ------------------------------------------------ frames of one session
\* One connection in a session, its receive task in the loop, no sink
\* registered yet; the frames the server sends decode or do not.
InitFrames ==
  /\ clients = Chan
  /\ nextId = 2
  /\ nextMsg = 1
  /\ status = [c \in Chan |-> Connected]
  /\ queue = [c \in Chan |-> <<>>]
  /\ reconnect_attempts = [c \in Chan |-> 0]
  /\ pc = [c \in Chan |-> "recv_wait"]
  /\ flushIdx = [c \in Chan |-> 1]
  /\ recv = [c \in Chan |-> "live"]
  /\ sessions = [c \in Chan |-> 1]
  /\ delivered = [c \in Chan |-> <<>>]
  /\ relayed = [c \in Chan |-> 0]
  /\ mgrOp = NoOp
  /\ ret = NoRet
  /\ failedSince = [c \in Chan |-> 0]
  /\ closed = {}
  /\ connection_status = Disconnected
  /\ attempts = 0
  /\ handshakes = 0
  /\ callPc = [k \in Calls |-> "idle"]
  /\ callRecv = [k \in Calls |-> "none"]
  /\ callDelay = [k \in Calls |-> 0]
  /\ event_handlers = <<>>
  /\ fanned = [c \in Chan |-> 0]
  /\ sinkBuf = [s \in Sinks |-> <<>>]
  /\ sinkRead = [s \in Sinks |-> 0]
  /\ sinkClosed = {}
  /\ unparsed = [c \in Chan |-> <<>>]
  /\ status_map = NoCall

NextFrames ==
  \/ \E s \in Sinks : AddEventHandler(s)
  \/ \E c \in Chan : Relay(c)
  \/ \E s \in Sinks : SinkConsume(s)
  \/ \E c \in Chan : RecvEvent(c)
  \/ \E c \in Chan, t \in TextFrames : RecvUnparsed(c, t)
  \/ \E c \in Chan : SessionEnd(c)
  \/ \E c \in Chan : RecvExit(c)

SpecFrames == InitFrames /\ [][NextFrames]_vars

\* ------------------------------------------------ the connection registry
\* A new manager for two connections, one sink registered so far; every
\* operation of the manager is called, with registered and unregistered ids.  The callers have one
\* message left to submit; a session that has been set up stays up.
InitRegistry ==
  /\ clients = {}
  /\ nextId = 1
  /\ nextMsg = MaxMsg
  /\ status = [c \in Pair |-> Disconnected]
  /\ queue = [c \in Pair |-> <<>>]
  /\ reconnect_attempts = [c \in Pair |-> 0]
  /\ pc = [c \in Pair |-> "idle"]
  /\ flushIdx = [c \in Pair |-> 1]
  /\ recv = [c \in Pair |-> "none"]
  /\ sessions = [c \in Pair |-> 0]
  /\ delivered = [c \in Pair |-> <<>>]
  /\ relayed = [c \in Pair |-> 0]
  /\ mgrOp = NoOp
  /\ ret = NoRet
  /\ failedSince = [c \in Pair |-> 0]
  /\ closed = {}
  /\ connection_status = Disconnected
  /\ attempts = 0
  /\ handshakes = 0
  /\ callPc = [k \in Calls |-> "idle"]
  /\ callRecv = [k \in Calls |-> "none"]
  /\ callDelay = [k \in Calls |-> 0]
  /\ event_handlers = <<1>>
  /\ fanned = [c \in Pair |-> 0]
  /\ sinkBuf = [s \in Sinks |-> <<>>]
  /\ sinkRead = [s \in Sinks |-> 0]
  /\ sinkClosed = {}
  /\ unparsed = [c \in Pair |-> <<>>]
  /\ status_map = NoCall

NextRegistry ==
  \/ CreateConnection
  \/ \E c \in Pair : CreateFailRemove(c)
  \/ \E c \in PairIds : CloseConnection(c)
  \/ \E c \in PairIds : GetStatus(c)
  \/ AllStatusBegin
  \/ \E c \in Pair : AllStatusInsert(c)
  \/ AllStatusReturn
  \/ \E c \in PairIds : SendBegin(c)
  \/ \E c \in Pair : SendEnqueue(c)
  \/ \E op \in ControlOps, c \in PairIds : Delegate(op, c)
  \/ \E s \in Sinks : AddEventHandler(s)
  \/ \E c \in Pair : ConnectStart(c)
  \/ \E c \in Pair : HandshakeOk(c)
  \/ \E c \in Pair : HandshakeFail(c)
  \/ \E c \in Pair : ResetAndSpawn(c)
  \/ \E c \in Pair : FlushSend(c)
  \/ \E c \in Pair : FlushEnd(c)

SpecRegistry == InitRegistry /\ [][NextRegistry]_vars

\* ------------------------------------- a WebSocketClient used directly
\* The callers in Calls share one client made by WebSocketClient::new and
\* call connect() and disconnect() on it.  No caller sends, so the queue is
\* empty and process_message_queue takes and releases its mutex at once.

\* connect(), first line: set_connection_status(Connecting); reached from the
\* caller (callPc "idle") or from attempt_reconnect after its sleep
DirectConnect(k) ==
  /\ callPc[k] \in {"idle", "backoff"}
  /\ connection_status' = Connecting
  /\ callPc' = [callPc EXCEPT ![k] = "handshake"]
  /\ UNCHANGED <<attempts, handshakes, callRecv, callDelay, mgrVars,
                 fanVars, status_map>>

\* connect(), connect_async returned Ok: set Connected
DirectHandshakeOk(k) ==
  /\ callPc[k] = "handshake"
  /\ handshakes < MaxSessions
  /\ connection_status' = Connected
  /\ handshakes' = handshakes + 1
  /\ callPc' = [callPc EXCEPT ![k] = "reset"]
  /\ UNCHANGED <<attempts, callRecv, callDelay, mgrVars,
                 fanVars, status_map>>

\* connect(), connect_async returned Err: set Error, return Err (to the
\* caller, or to attempt_reconnect, which logs it and returns)
DirectHandshakeFail(k) ==
  /\ callPc[k] = "handshake"
  /\ connection_status' = ErrorConnFailed
  /\ callPc' = [callPc EXCEPT ![k] = "returned"]
  /\ UNCHANGED <<attempts, handshakes, callRecv, callDelay, mgrVars,
                 fanVars, status_map>>

\* connect(): reset_reconnect_attempts; start_message_loop: spawn the receive
\* task, process_message_queue (empty queue), then wait for the receive task
DirectResetAndSpawn(k) ==
  /\ callPc[k] = "reset"
  /\ attempts' = ResetAttempts(attempts)
  /\ callRecv' = [callRecv EXCEPT ![k] = "live"]
  /\ callPc' = [callPc EXCEPT ![k] = "recv_wait"]
  /\ UNCHANGED <<connection_status, handshakes, callDelay, mgrVars,
                 fanVars, status_map>>

\* receive task: a Close frame, a read error or the end of the stream
DirectSessionEnd(k) ==
  /\ callRecv[k] = "live"
  /\ callRecv' = [callRecv EXCEPT ![k] = "ended"]
  /\ UNCHANGED <<connection_status, attempts, handshakes, callPc, callDelay, mgrVars,
                 fanVars, status_map>>

\* receive task, after the loop: write Disconnected
DirectRecvExit(k) ==
  /\ callRecv[k] = "ended"
  /\ connection_status' = Disconnected
  /\ callRecv' = [callRecv EXCEPT ![k] = "none"]
  /\ UNCHANGED <<attempts, handshakes, callPc, callDelay, mgrVars,
                 fanVars, status_map>>

\* tokio::time::sleep(self.reconnect_delay * attempts), in seconds
BackoffDelayFixed(n) == reconnect_delay
BackoffDelay(n) == reconnect_delay * n

\* attempt_reconnect up to its sleep
DirectAttemptReconnect(k) ==
  /\ callPc[k] = "recv_wait"
  /\ callRecv[k] = "none"
  /\ attempts' = Increment(attempts)
  /\ IF attempts' <= max_reconnect_attempts
       THEN /\ connection_status' = Reconnecting
            /\ callDelay' = [callDelay EXCEPT ![k] = BackoffDelay(attempts')]
            /\ callPc' = [callPc EXCEPT ![k] = "backoff"]
       ELSE /\ connection_status' = ErrorMaxExceeded
            /\ callPc' = [callPc EXCEPT ![k] = "returned"]
            /\ UNCHANGED callDelay
  /\ UNCHANGED <<handshakes, callRecv, mgrVars, fanVars, status_map>>

\* disconnect(): set_connection_status(Disconnected)
DirectDisconnect ==
  /\ connection_status' = Disconnected
  /\ UNCHANGED <<attempts, handshakes, callPc, callRecv, callDelay, mgrVars,
                 fanVars, status_map>>

NextClient ==
  \/ \E k \in Calls : DirectConnect(k)
  \/ \E k \in Calls : DirectHandshakeOk(k)
  \/ \E k \in Calls : DirectHandshakeFail(k)
  \/ \E k \in Calls : DirectResetAndSpawn(k)
  \/ \E k \in Calls : DirectSessionEnd(k)
  \/ \E k \in Calls : DirectRecvExit(k)
  \/ \E k \in Calls : DirectAttemptReconnect(k)
  \/ DirectDisconnect

SpecClient == Init /\ [][NextClient]_vars

\* ------------------------------------------------- the backoff of a client
\* The same client when the connect() of each caller in Calls has set up a
\* session (all but one of the sessions there will be) and waits for its
\* receive task, while other call chains of the client (not followed here) have
\* counted reconnect attempts since the last reset and are in their sleep.
InitBackoff ==
  /\ clients = {}
  /\ nextId = 1
  /\ nextMsg = 1
  /\ status = [c \in Chan |-> Disconnected]
  /\ queue = [c \in Chan |-> <<>>]
  /\ reconnect_attempts = [c \in Chan |-> 0]
  /\ pc = [c \in Chan |-> "idle"]
  /\ flushIdx = [c \in Chan |-> 1]
  /\ recv = [c \in Chan |-> "none"]
  /\ sessions = [c \in Chan |-> 0]
  /\ delivered = [c \in Chan |-> <<>>]
  /\ relayed = [c \in Chan |-> 0]
  /\ mgrOp = NoOp
  /\ ret = NoRet
  /\ failedSince = [c \in Chan |-> 0]
  /\ closed = {}
  /\ attempts \in 0..max_reconnect_attempts
  /\ connection_status = IF attempts = 0 THEN Connected ELSE Reconnecting
  /\ handshakes = MaxSessions - 1
  /\ callPc = [k \in Calls |-> "recv_wait"]
  /\ callRecv = [k \in Calls |-> "live"]
  /\ callDelay = [k \in Calls |-> 0]
  /\ event_handlers = <<>>
  /\ fanned = [c \in Chan |-> 0]
  /\ sinkBuf = [s \in Sinks |-> <<>>]
  /\ sinkRead = [s \in Sinks |-> 0]
  /\ sinkClosed = {}
  /\ unparsed = [c \in Chan |-> <<>>]
  /\ status_map = NoCall

SpecBackoff == InitBackoff /\ [][NextClient]_vars


\* ================================================================ claims

\* C1: a send_message made while the status is not Connected returns only
\* after the message was appended to the queue (with the "queued" error; Ok
\* is returned only when the status read was Connected), and a queued
\* message leaves the queue only when process_message_queue has sent it and
\* trims the queue, or when clear_message_queue runs.
C1_QueuedNotLost ==
  [][\A c \in Chan :
       /\ (mgrOp # NoOp /\ mgrOp.chan = c /\ mgrOp' # mgrOp) =>
             /\ queue'[c] = Append(queue[c], mgrOp.msg)
             /\ ret' = Ret("send", c, mgrOp.msg, "queued")
       /\ (nextMsg' # nextMsg /\ c \in clients /\ status[c] # Connected
             /\ (mgrOp'.chan = c \/ (ret'.chan = c /\ ret'.msg = nextMsg))) =>
             /\ mgrOp' = [chan |-> c, msg |-> nextMsg]
             /\ delivered'[c] = delivered[c]
       /\ \A m \in Range(queue[c]) :
             \/ m \in Range(queue'[c])
             \/ /\ pc[c] = "flush"
                /\ pc'[c] = "recv_wait"
                /\ m \in MsgIds(delivered[c])
             \/ /\ ret' = Ret("clear", c, 0, "ok")
                /\ UNCHANGED <<pc, recv, relayed, status>>
    ]_vars

C1_Witness ==
  \E c \in Chan :
    /\ ret.op = "send"
    /\ ret.res = "queued"
    /\ Len(queue[c]) >= 2
    /\ ret.msg = queue[c][Len(queue[c])]
    /\ status[c] = Connected

\* C2: once process_message_queue is no longer iterating (it finished, or it
\* stopped at the first send that failed), the messages it delivered are gone
\* from the queue and the rest is still queued: no delivered message is queued.
C2_FlushStopsAtFirstFailure ==
  \A c \in Chan :
    pc[c] # "flush" => Range(queue[c]) \cap MsgIds(delivered[c]) = {}

\* C3: within one channel messages are delivered in the order submitted:
\* delivered ids increase, and no message is delivered while a message
\* submitted before it is still queued undelivered.
C3_DeliveredInSubmissionOrder ==
  \A c \in Chan :
    \A j \in 1..Len(delivered[c]) :
      /\ \A i \in 1..(j - 1) : delivered[c][i].id < delivered[c][j].id
      /\ \A m \in Range(queue[c]) :
            m \in MsgIds(delivered[c]) \/ m > delivered[c][j].id

\* C4: after a session drop the channel stops reconnecting automatically (the
\* connect chain has returned) only when max_reconnect_attempts consecutive
\* reconnect handshakes have failed.
C4_RetriesUntilLimit ==
  \A c \in Chan :
    (pc[c] = "returned" /\ sessions[c] > 0) =>
        failedSince[c] >= max_reconnect_attempts

\* C6 (as stated): reconnect_attempts equals the number of consecutive failed
\* reconnect attempts since the last successful connect (the instant between
\* the status write and the reset of a successful connect left aside).
C6_EqualsFailedAttempts ==
  \A c \in Chan :
    pc[c] # "reset" => reconnect_attempts[c] = failedSince[c]

\* C6 (amended): reconnect_attempts grows by exactly 1 when attempt_reconnect
\* starts an attempt (before its handshake), is set to 0 by the reset of every
\* successful connect and changes nowhere else; it is 0 from the reset until
\* the next attempt_reconnect, one more than the failed attempts while an
\* attempt is pending, and equal to them once the attempt has failed.
C6_CountsStartedAttempts ==
  [][\A c \in Chan :
       /\ (pc[c] = "recv_wait" /\ pc'[c] # "recv_wait") =>
             reconnect_attempts'[c] = reconnect_attempts[c] + 1
       /\ (pc[c] = "reset" /\ pc'[c] # "reset") => reconnect_attempts'[c] = 0
       /\ (pc[c] \notin {"recv_wait", "reset"} \/ pc'[c] = pc[c]) =>
             reconnect_attempts'[c] = reconnect_attempts[c]
       /\ pc'[c] \in {"flush", "blocked", "recv_wait"} =>
             reconnect_attempts'[c] = 0
       /\ (pc'[c] \in {"backoff", "handshake"} /\ sessions'[c] > 0) =>
             reconnect_attempts'[c] = failedSince'[c] + 1
       /\ (pc'[c] = "returned" /\ sessions'[c] > 0) =>
             reconnect_attempts'[c] = failedSince'[c]
    ]_vars

C6_Witness ==
  \E c \in Chan :
    /\ pc[c] = "backoff"
    /\ reconnect_attempts[c] = 1
    /\ failedSince[c] = 0
    /\ sessions[c] = 2

\* C7 (as stated): when create_connection has returned the connection error,
\* the channel is still registered and its status resolves to Error.
C7_FailedOpenStillRegistered ==
  \A c \in Chan :
    ret = Ret("create", c, 0, "conn_error") =>
        (c \in clients /\ IsError(get_connection_status(c)))

\* C7 (amended): when the first handshake fails, create_connection removes the
\* id before it returns the connection error: from then on the id is not
\* registered and get_connection_status answers not-found.
C7_FailedOpenRemoved ==
  \A c \in Chan :
    /\ ret = Ret("create", c, 0, "conn_error") =>
          (pc[c] = "returned" /\ sessions[c] = 0)
    /\ (pc[c] = "returned" /\ sessions[c] = 0) =>
          (c \notin clients /\ get_connection_status(c) = "not_found")

C7_Witness ==
  \E c \in Chan :
    /\ ret = Ret("create", c, 0, "conn_error")
    /\ c \notin closed
    /\ IsError(status[c])

\* C8: three messages were written on the first session, the session dropped
\* (nothing acknowledges a message), the reconnect succeeded and its flush has
\* run: then the flush of the second session has delivered the three messages
\* in their original order and the queue is empty.
C8_ResentAfterReconnect ==
  \A c \in Chan :
    LET first == SelectSeq(delivered[c], LAMBDA d : d.sess = 1)
        second == SelectSeq(delivered[c], LAMBDA d : d.sess = 2)
    IN (sessions[c] = 2 /\ pc[c] = "recv_wait" /\ Len(first) = 3) =>
          /\ queue[c] = <<>>
          /\ Len(second) = 3
          /\ \A i \in 1..3 : second[i].id = first[i].id

\* C9: once close_connection has returned Ok for a channel, no step changes
\* its status away from Disconnected, starts a reconnect attempt or relays an
\* inbound event.
C9_ClosedIsQuiet ==
  [][\A c \in closed :
       /\ status'[c] = Disconnected
       /\ reconnect_attempts'[c] = reconnect_attempts[c]
       /\ relayed'[c] = relayed[c]
    ]_vars

\* C10 (as stated): a status of Error or Disconnected changes only by an
\* explicit call: close_connection, or the connect() of create_connection
\* (stated for channels that were never closed).
C10_ErrorAndDisconnectedStable ==
  [][\A c \in Chan \ closed :
       ((IsError(status[c]) \/ status[c] = Disconnected) /\ status'[c] # status[c]) =>
           \/ c \in closed' \ closed
           \/ pc[c] = "created"
    ]_vars

\* C10 (amended): Error is stable: an Error status changes only by
\* close_connection.  Disconnected is not: it changes without an explicit call
\* while the connect chain started by create_connection is still running
\* (attempt_reconnect after the receive task wrote Disconnected, or a pending
\* handshake finishing after close); it is stable once the chain has returned.
C10_ErrorStable ==
  [][\A c \in Chan :
       /\ (IsError(status[c]) /\ status'[c] # status[c]) => c \in closed' \ closed
       /\ (status[c] = Disconnected /\ status'[c] # status[c]) =>
             pc[c] \in {"created", "handshake", "recv_wait", "backoff"}
    ]_vars

C10_Witness ==
  \E c \in Chan :
    /\ IsError(status[c])
    /\ pc[c] = "returned"
    /\ sessions[c] > 0
    /\ c \in clients

\* C11: a client has at most one live receive task (one active session) at a
\* time, whatever the interleaving of connect(), reconnects and disconnect().
C11_AtMostOneSession ==
  Cardinality({k \in Calls : callRecv[k] = "live"}) <= 1

\* C12: connect() called while the status is Connecting or Connected is a
\* no-op: the call returns at once, the status and the receive tasks are as
\* before and no handshake was started.
C12_ConnectIdempotent ==
  [][\A k \in Calls :
       (callPc[k] = "idle" /\ callPc'[k] # "idle"
          /\ connection_status \in {Connecting, Connected}) =>
           /\ callPc'[k] = "returned"
           /\ UNCHANGED <<connection_status, callRecv, handshakes>>
    ]_vars

\* C13: once the handshake has succeeded and the queue flush is over,
\* create_connection has returned the id to its caller: while the receive task
\* is in its loop the call chain of create_connection is no longer running.
C13_OpenReturnsWhileLive ==
  \A c \in Chan :
    (recv[c] = "live" /\ pc[c] \notin {"flush", "blocked"}) => pc[c] = "returned"

\* C14: close_connection with an id that is not in the map (never opened, or
\* already closed) returns the not-found error, and the step that returns it
\* changes neither the map nor any client.
C14_CloseUnknownNotFound ==
  [][\A c \in ConnIds :
       (ret' # ret /\ ret'.op = "close" /\ ret'.chan = c) =>
           /\ c \notin clients => ret'.res = "not_found"
           /\ ret'.res = "not_found" =>
                 /\ c \notin clients
                 /\ UNCHANGED <<clients, status, queue, reconnect_attempts, pc,
                                flushIdx, recv, sessions, delivered, relayed,
                                mgrOp, closed>>
    ]_vars

C14_Witness ==
  \E c \in closed :
    /\ ret = Ret("close", c, 0, "not_found")
    /\ clients = {}

\* C15: get_connection_status, send_message, subscribe_to_consultation,
\* unsubscribe_from_consultation, send_read_receipt and send_typing_status of
\* the manager, called with an id that is not in the map, return the
\* not-found error, and the step changes no client's status or queue (nor the
\* map, the counters, the call chains or the receive tasks).
C15_UnknownIdNotFound ==
  [][\A c \in PairIds :
       (ret' # ret /\ ret'.chan = c /\ c \notin clients
          /\ ret'.op \in {"status", "send"} \cup ControlOps) =>
           /\ ret'.res = "not_found"
           /\ UNCHANGED <<clients, status, queue, reconnect_attempts, pc,
                          flushIdx, recv, sessions, delivered, relayed, mgrOp,
                          closed>>
    ]_vars

C15_Witness ==
  /\ ret = Ret("typing", 3, 0, "not_found")
  /\ clients = Pair
  /\ queue[1] # <<>>
  /\ status[2] = Connected

\* C19: operations on different connections do not contend: while a send on
\* connection a waits for a's queue mutex, get_connection_status, send_message
\* and a subscribe on another registered connection b can still complete.
C19_OtherChannelNotBlocked ==
  \A a \in Pair : \A b \in clients \ {a} :
    (mgrOp # NoOp /\ mgrOp.chan = a /\ QueueLocked(a)) =>
        /\ ENABLED GetStatus(b)
        /\ ENABLED Delegate("subscribe", b)
        /\ nextMsg <= MaxMsg => ENABLED SendBegin(b)

\* C20: a step of connection a's receive task that ends its loop (Close
\* frame, read error, end of stream) or leaves it (the Disconnected write), and
\* the attempt_reconnect that follows, leave the status, the queue and the
\* reconnect_attempts of every other connection as they were.
C20_RecvFailureIsLocal ==
  [][\A a \in Pair :
       ((recv[a] \in {"live", "ended"} /\ recv'[a] # recv[a])
          \/ (pc[a] = "recv_wait" /\ pc'[a] # pc[a])) =>
           \A b \in Pair \ {a} :
             /\ status'[b] = status[b]
             /\ queue'[b] = queue[b]
             /\ reconnect_attempts'[b] = reconnect_attempts[b]
    ]_vars

C20_Witness ==
  \E a \in Pair : \E b \in Pair \ {a} :
    /\ pc[a] = "backoff"
    /\ status[a] = Reconnecting
    /\ reconnect_attempts[a] = 1
    /\ status[b] = Connected
    /\ recv[b] = "live"
    /\ reconnect_attempts[b] = 0
    /\ queue[b] # <<>>

\* C18: when the handshake of the first connect() of a connection fails, the
\* status becomes Error, create_connection returns the error to its caller and
\* the call chain is over: no attempt_reconnect follows.  A reconnect attempt
\* (counter incremented, status Reconnecting) is made only after a session
\* that was established has dropped.
C18_FirstFailureNotRetried ==
  [][\A c \in Chan :
       /\ (pc[c] = "handshake" /\ pc'[c] # "handshake" /\ sessions'[c] = 0) =>
             /\ status'[c] = ErrorConnFailed
             /\ pc'[c] = "remove"
       /\ (pc[c] = "remove" /\ pc'[c] # "remove") =>
             /\ pc'[c] = "returned"
             /\ ret' = Ret("create", c, 0, "conn_error")
       /\ pc[c] = "returned" => pc'[c] = "returned"
       /\ sessions'[c] = 0 =>
             /\ reconnect_attempts'[c] = 0
             /\ status'[c] # Reconnecting
    ]_vars

C18_Witness ==
  \E c \in Chan :
    /\ pc[c] = "returned"
    /\ sessions[c] = 0
    /\ status[c] = ErrorConnFailed
    /\ reconnect_attempts[c] = 0
    /\ ret.op = "create"

\* C16: each broadcast takes the next event of a client in wire order and
\* appends it to the channel of every sink that is registered (and whose
\* receiver exists) at that moment; so what a sink holds of one client is a
\* run of consecutive events of that client in wire order, without gap or
\* repetition, and never more than the client has received.
C16_EverySinkEveryEventInOrder ==
  [][\A c \in Pair :
       /\ fanned'[c] # fanned[c] =>
             /\ fanned'[c] = fanned[c] + 1
             /\ \A s \in Range(event_handlers) \ sinkClosed :
                   sinkBuf'[s] = Append(sinkBuf[s], [chan |-> c, n |-> fanned'[c]])
       /\ fanned'[c] <= relayed'[c]
       /\ \A s \in Sinks :
             LET sub == SelectSeq(sinkBuf'[s], LAMBDA e : e.chan = c)
             IN /\ \A i \in 1..(Len(sub) - 1) : sub[i + 1].n = sub[i].n + 1
                /\ (sub # <<>> /\ s \notin sinkClosed') =>
                      sub[Len(sub)].n = fanned'[c]
    ]_vars

C16_Witness ==
  \E s \in Sinks : \E t \in Sinks \ {s} :
    /\ Len(sinkBuf[s]) = 4
    /\ sinkBuf[s][1].chan # sinkBuf[s][2].chan
    /\ sinkBuf[s][2].chan # sinkBuf[s][3].chan
    /\ Len(sinkBuf[t]) = 3
    /\ sinkClosed = {}

\* C17: whatever the sinks do (a sink that never takes an event off its
\* channel, a sink whose receiver is gone), the broadcast of a pending event
\* can proceed and the receive task can pass on the next event.
C17_SlowSinkNeverBlocks ==
  \A c \in Pair :
    /\ fanned[c] < relayed[c] => ENABLED Relay(c)
    /\ (recv[c] = "live" /\ relayed[c] < MaxEvents) => ENABLED RecvEvent(c)

C17_Witness ==
  \E s \in Sinks : \E t \in Sinks \ {s} :
    /\ event_handlers = <<s, t>>
    /\ sinkRead[s] = 0
    /\ Len(sinkBuf[s]) >= 3
    /\ sinkRead[t] = Len(sinkBuf[t])
    /\ Len(sinkBuf[t]) >= 3
    /\ \E c \in Pair : fanned[c] < relayed[c]

\* C21: a send_message made while the status is Connected but the session can
\* no longer carry a write (the receive task has left its loop on a Close
\* frame, a read error or the end of the stream, and has not yet written
\* Disconnected) appends the message to the queue and returns the "queued"
\* error; nothing is counted as written.
C21_WriteFailureQueued ==
  [][\A c \in Chan :
       (nextMsg' # nextMsg /\ c \in clients
          /\ status[c] = Connected /\ recv[c] = "ended"
          /\ (mgrOp'.chan = c \/ (ret'.chan = c /\ ret'.msg = nextMsg))) =>
           /\ queue'[c] = Append(queue[c], nextMsg)
           /\ ret' = Ret("send", c, nextMsg, "queued")
           /\ delivered'[c] = delivered[c]
    ]_vars

\* C23: in every reachable state the connection_status of every client is
\* one of Disconnected, Connecting, Connected, Reconnecting, Error(reason).
C23_StatusIsOneOfFive ==
  \A c \in Chan : status[c] \in ConnectionStatus

C23_Witness ==
  \E c \in Chan :
    /\ status[c] = Disconnected
    /\ recv[c] = "none"
    /\ pc[c] = "recv_wait"
    /\ sessions[c] = 2

\* C24 (as stated): a Connected status changes directly to Reconnecting (or to
\* Error when no attempt remains), and a Reconnecting status changes to
\* Connecting (stated for connections that are not closed).
C24_ConnectedToReconnecting ==
  [][\A c \in Chan \ closed' :
       /\ (status[c] = Connected /\ status'[c] # Connected) =>
             status'[c] \in {Reconnecting, ErrorMaxExceeded}
       /\ (status[c] = Reconnecting /\ status'[c] # Reconnecting) =>
             status'[c] = Connecting
    ]_vars

\* C24 (amended): a Connected status changes only to Disconnected, written by
\* the receive task when it leaves its loop (or by close_connection);
\* Reconnecting and the max-attempts Error are entered only from Disconnected,
\* by attempt_reconnect, Reconnecting only while the incremented counter is
\* within max_reconnect_attempts; a Reconnecting status changes only to
\* Connecting, when the connect() after the delay starts (or to Disconnected
\* by close_connection).
C24_DropGoesThroughDisconnected ==
  [][\A c \in Chan :
       /\ (status[c] = Connected /\ status'[c] # Connected) =>
             /\ status'[c] = Disconnected
             /\ \/ recv[c] = "ended" /\ recv'[c] = "none"
                \/ c \in closed' \ closed
       /\ (status'[c] \in {Reconnecting, ErrorMaxExceeded} /\ status'[c] # status[c]) =>
             /\ status[c] = Disconnected
             /\ pc[c] = "recv_wait"
             /\ pc'[c] = IF status'[c] = Reconnecting THEN "backoff" ELSE "returned"
             /\ status'[c] = Reconnecting <=>
                   reconnect_attempts'[c] <= max_reconnect_attempts
       /\ (status[c] = Reconnecting /\ status'[c] # Reconnecting) =>
             \/ status'[c] = Connecting /\ pc[c] = "backoff" /\ pc'[c] = "handshake"
             \/ status'[c] = Disconnected /\ c \in closed' \ closed
    ]_vars

C24_Witness ==
  \E c \in Chan \ closed :
    /\ status[c] = Connecting
    /\ pc[c] = "handshake"
    /\ sessions[c] = 1
    /\ reconnect_attempts[c] = 1

\* C25: a successful handshake (first connect or reconnect) sets Connected;
\* the next step of the call chain resets reconnect_attempts to 0 and starts
\* process_message_queue at the head of the queue; the flush sends the queued
\* messages in queue order, and the chain comes to its wait for the receive
\* task only from the flush, when every message that was queued has been
\* written in the new session and the queue has been emptied.
C25_ConnectedResetThenFlush ==
  [][\A c \in Chan :
       /\ (pc[c] = "handshake" /\ sessions'[c] # sessions[c]) =>
             /\ status'[c] = Connected
             /\ pc'[c] = "reset"
       /\ (pc[c] = "reset" /\ pc'[c] # "reset") =>
             /\ pc'[c] = "flush"
             /\ reconnect_attempts'[c] = 0
             /\ flushIdx'[c] = 1
             /\ queue'[c] = queue[c]
       /\ (pc[c] = "flush" /\ flushIdx'[c] # flushIdx[c]) =>
             /\ flushIdx'[c] = flushIdx[c] + 1
             /\ delivered'[c] =
                   Append(delivered[c], [id |-> queue[c][flushIdx[c]], sess |-> sessions[c]])
       /\ (pc'[c] = "recv_wait" /\ pc[c] # "recv_wait") =>
             /\ pc[c] = "flush"
             /\ \A i \in 1..Len(queue[c]) :
                   [id |-> queue[c][i], sess |-> sessions[c]] \in Range(delivered[c])
             /\ queue'[c] = <<>>
    ]_vars

C25_Witness ==
  \E c \in Chan :
    /\ pc[c] = "recv_wait"
    /\ sessions[c] = 2
    /\ reconnect_attempts[c] = 0
    /\ ret = Ret("send", c, 2, "queued")
    /\ delivered[c] = <<[id |-> 1, sess |-> 2], [id |-> 2, sess |-> 2]>>
    /\ queue[c] = <<>>

\* C22: after subscribe_to_consultation has returned for a connection, the
\* same call made again returns the same result and changes nothing: no
\* step of a repeated subscribe leads to a different state.
C22_SubscribeIdempotent ==
  \A c \in Pair :
    ret = Ret("subscribe", c, 0, "printed") =>
        ~ENABLED (Delegate("subscribe", c) /\ vars' # vars)

C22_Witness ==
  \E c \in Pair :
    /\ ret = Ret("subscribe", c, 0, "printed")
    /\ ENABLED Delegate("subscribe", c)
    /\ status[c] = Connected

\* C27: a send_read_receipt or send_typing_status call leaves the queue, the
\* status and the reconnect_attempts of every client as they were, whatever
\* the state of the client it is made on.
C27_ReceiptAndTypingNeverEnqueue ==
  [][(ret' # ret /\ ret'.op \in {"read_receipt", "typing"}) =>
        UNCHANGED <<queue, status, reconnect_attempts>>
    ]_vars

C27_Witness ==
  \E c \in Pair :
    /\ ret = Ret("typing", c, 0, "printed")
    /\ status[c] \in {Disconnected, ErrorConnFailed}
    /\ queue[c] # <<>>

\* C28: a subscribe or unsubscribe made on a registered connection whose
\* status is not Connected produces no frame text, and adds nothing to the
\* queue.
C28_ControlFrameOnlyWhenConnected ==
  [][\A c \in clients :
       (ret' # ret /\ ret'.op \in {"subscribe", "unsubscribe"} /\ ret'.chan = c
          /\ status[c] # Connected) =>
           /\ ret'.res # "printed"
           /\ queue'[c] = queue[c]
    ]_vars

\* C29: a queue grows only by the message of a send_message that read a status
\* other than Connected, appended at the end; it shrinks only when
\* process_message_queue returns, by messages it has written, or when
\* clear_message_queue empties it.  No other step changes a queue.
C29_QueueChangesOnlyBySendFlushClear ==
  [][\A c \in Pair :
       /\ (mgrOp' # NoOp /\ mgrOp # mgrOp') =>
             /\ status[mgrOp'.chan] # Connected
             /\ mgrOp'.msg = nextMsg
       /\ queue'[c] # queue[c] =>
             \/ /\ mgrOp # NoOp
                /\ mgrOp.chan = c
                /\ queue'[c] = Append(queue[c], mgrOp.msg)
                /\ ret' = Ret("send", c, mgrOp.msg, "queued")
             \/ /\ pc[c] = "flush"
                /\ pc'[c] = "recv_wait"
                /\ queue'[c] = SelectSeq(queue[c], LAMBDA m : m \notin MsgIds(delivered[c]))
             \/ /\ ret' = Ret("clear", c, 0, "ok")
                /\ queue'[c] = <<>>
                /\ UNCHANGED <<pc, status, recv, mgrOp>>
    ]_vars

C29_Witness ==
  \E c \in Pair :
    /\ c \in closed
    /\ queue[c] # <<>>
    /\ status[c] = Connected
    /\ ret.op = "subscribe"
    /\ ret.chan = c

\* C26: a text frame that does not decode to one of the six event variants
\* is discarded: the step that takes it passes no event on (relayed, fanned
\* and every sink's channel are unchanged), leaves the receive task in its
\* loop and leaves the status alone; and no sink ever holds an event that
\* is not one of the decoded ones.
C26_UnparsedFrameDiscarded ==
  [][\A c \in Chan :
       unparsed'[c] # unparsed[c] =>
         /\ relayed' = relayed
         /\ fanned' = fanned
         /\ sinkBuf' = sinkBuf
         /\ recv[c] = "live" /\ recv'[c] = "live"
         /\ status' = status
         /\ \A s \in Sinks : \A i \in 1..Len(sinkBuf'[s]) :
               sinkBuf'[s][i].n \in 1..relayed'[sinkBuf'[s][i].chan]]_vars

\* a frame that failed to parse was followed by a valid frame, which was
\* decoded, passed on and sent to a registered sink
C26_Witness ==
  \E c \in Chan : \E s \in Sinks :
    /\ Len(unparsed[c]) > 0
    /\ \E i \in 1..Len(sinkBuf[s]) :
          /\ sinkBuf[s][i].chan = c
          /\ sinkBuf[s][i].n = unparsed[c][1] + 1

\* C30: the set of registered ids changes only in a step of
\* create_connection (the insert, or the removal after a failed connect) or
\* of close_connection; every step of get_connection_status,
\* get_all_connection_status, send_message, the four control operations and
\* add_event_handler leaves it as it is.  get_all_connection_status fills in
\* for each id the status that client has when it is read, keeps the entries
\* it has filled in, and the map it returns has exactly the registered ids
\* as its keys.
C30_RegistryChangedOnlyByOpenAndClose ==
  [][/\ clients' # clients =>
          \/ CreateConnection
          \/ \E c \in Pair : CreateFailRemove(c)
          \/ \E c \in PairIds : CloseConnection(c)
     /\ \A c \in Pair :
          (c \in DOMAIN status_map'.map /\ c \notin DOMAIN status_map.map) =>
             /\ c \in clients
             /\ status_map'.map[c] = status[c]
     /\ \A c \in DOMAIN status_map.map :
          (status_map.busy /\ status_map'.busy) =>
             /\ c \in DOMAIN status_map'.map
             /\ status_map'.map[c] = status_map.map[c]
     /\ (status_map.busy /\ ~status_map'.busy) =>
          /\ DOMAIN status_map.map = clients
          /\ clients' = clients
          /\ ret'.op = "all_status"]_vars

\* get_all_connection_status is about to return a map of two entries, for
\* two registered connections in different statuses
C30_Witness ==
  /\ status_map.busy
  /\ clients = Pair
  /\ DOMAIN status_map.map = Pair
  /\ status_map.map[1] # status_map.map[2]
  /\ ENABLED AllStatusReturn

\* C31: a close issued while the channel is in its backoff wait cancels the
\* wait: close_connection returns at once, and a closed channel that is in
\* its backoff wait never goes on to the reconnect (it stays where it is).
C31_CloseCancelsBackoff ==
  [][\A c \in Chan :
       (c \in closed /\ pc[c] = "backoff") => pc'[c] = "backoff"]_vars

\* C32: attempt_reconnect increments the counter to n; when n is within
\* max_reconnect_attempts it sleeps reconnect_delay * n seconds (2, 4, ... 10)
\* before the attempt, and when n is beyond the limit it sets the Error
\* status and makes no attempt.  The connect() of a reconnect is started only
\* by a chain that has been through that sleep.
C32_LinearBackoff ==
  [][\A k \in Calls :
       /\ (callPc[k] = "recv_wait" /\ callPc'[k] # "recv_wait") =>
            /\ attempts' = attempts + 1
            /\ IF attempts' <= max_reconnect_attempts
                 THEN /\ callPc'[k] = "backoff"
                      /\ callDelay'[k] = 2 * attempts'
                      /\ callDelay'[k] \in {2, 4, 6, 8, 10}
                 ELSE /\ callPc'[k] = "returned"
                      /\ connection_status' = ErrorMaxExceeded
                      /\ callDelay'[k] = callDelay[k]
       /\ (callPc[k] \notin {"idle", "handshake"} /\ callPc'[k] = "handshake") =>
            /\ callPc[k] = "backoff"
            /\ callDelay[k] \in {2, 4, 6, 8, 10}]_vars

\* one chain sleeps 10 seconds before the fifth attempt while for the other
\* the counter went beyond the limit and it has returned without an attempt
C32_Witness ==
  \E k \in Calls : \E j \in Calls \ {k} :
    /\ callPc[k] = "backoff"
    /\ callDelay[k] = 10
    /\ attempts = max_reconnect_attempts + 1
    /\ callPc[j] = "returned"
    /\ connection_status = ErrorMaxExceeded

\* C33: in every state, for every connection id and every message type
\* string other than text, image, voice and file, the command
\* send_websocket_message can return at once (also while another operation
\* holds the clients mutex), and all it can do is return the validation
\* error: no message id is made, nothing is written to a session, nothing is
\* queued and no send is left in progress, on any connection.
C33_InvalidTypeRejected ==
  \A c \in PairIds : \A ty \in TypeStrings \ {"text", "image", "voice", "file"} :
    /\ ENABLED SendWebsocketMessage(c, ty)
    /\ ~ENABLED (/\ SendWebsocketMessage(c, ty)
                 /\ ~(/\ ret' = Ret("send_websocket_message", c, 0, "invalid_type")
                      /\ queue' = queue
                      /\ delivered' = delivered
                      /\ mgrOp' = mgrOp
                      /\ nextMsg' = nextMsg))

\* the command has returned the validation error for a Connected connection
\* while a send to the other connection held the clients mutex
C33_Witness ==
  \E c \in Pair :
    /\ ret = Ret("send_websocket_message", c, 0, "invalid_type")
    /\ status[c] = Connected
    /\ mgrOp # NoOp
    /\ mgrOp.chan # c

\* C34: process_message_queue never stops for good with the queue mutex
\* held: whatever happens to the status while it iterates, it is never
\* stuck inside an iteration, so the mutex is released again and a later
\* add_to_queue gets it.
C34_FlushAlwaysReturns ==
  \A c \in Chan : pc[c] # "blocked"

\* C35: for a connection driven through the manager reconnect_attempts is 0
\* or 1 in every state, the status is never the Error of the exceeded limit,
\* and a chain in its backoff sleeps 1 x reconnect_delay.
C35_AttemptsAtMostOne ==
  \A c \in Chan :
    /\ reconnect_attempts[c] \in {0, 1}
    /\ status[c] # ErrorMaxExceeded
    /\ pc[c] = "backoff" => BackoffDelay(reconnect_attempts[c]) = reconnect_delay

\* the second session of a connection has dropped and the chain is in the
\* backoff of its second reconnect, the counter at 1 again
C35_Witness ==
  \E c \in Chan :
    /\ sessions[c] >= 2
    /\ pc[c] = "backoff"
    /\ reconnect_attempts[c] = 1
    /\ status[c] = Reconnecting

C37_OkOnlyOnLiveSession ==
  [][\A c \in Chan :
       (nextMsg' # nextMsg /\ ret' = Ret("send", c, nextMsg, "ok")) =>
          recv[c] # "ended"]_vars

\* C38: the step in which create_connection returns the error of a failed
\* first handshake removes the new id and nothing else, so the registered
\* ids are those of before the call; from then on the id is not registered
\* and no get_all_connection_status map holds an entry for it.
C38_FailedCreateRemovesId ==
  [][\A c \in Pair :
       /\ (pc[c] = "remove" /\ pc'[c] = "returned") =>
            /\ ret' = Ret("create", c, 0, "conn_error")
            /\ clients' = clients \ {c}
       /\ (pc'[c] = "returned" /\ sessions'[c] = 0) =>
            /\ c \notin clients'
            /\ c \notin DOMAIN status_map'.map]_vars

\* the create of the second connection has failed and returned while the
\* first is registered, and a get_all_connection_status is about to return
\* a map with the first connection only
C38_Witness ==
  /\ pc[2] = "returned"
  /\ sessions[2] = 0
  /\ clients = {1}
  /\ status_map.busy
  /\ DOMAIN status_map.map = {1}

\* C39: the broadcast of an event appends that event, once, to the channel
\* of every sink that is registered at that moment and whose receiver is
\* alive, and to no other; a sink's channel changes in no other step, so an
\* event broadcast before a sink was registered never reaches that sink, and
\* no sink holds an event twice.
C39_DeliveredOnceToSinksOfTheMoment ==
  [][/\ \A c \in Pair :
          fanned'[c] # fanned[c] =>
            /\ fanned'[c] = fanned[c] + 1
            /\ \A s \in Sinks :
                 sinkBuf'[s] =
                   IF s \in Range(event_handlers) /\ s \notin sinkClosed
                     THEN Append(sinkBuf[s], [chan |-> c, n |-> fanned'[c]])
                     ELSE sinkBuf[s]
     /\ \A s \in Sinks :
          sinkBuf'[s] # sinkBuf[s] => \E c \in Pair : fanned'[c] # fanned[c]
     /\ \A s \in Sinks : \A i, j \in 1..Len(sinkBuf'[s]) :
          sinkBuf'[s][i] = sinkBuf'[s][j] => i = j]_vars

\* the second sink was registered after the first event of a connection had
\* been broadcast: the first sink holds both events of that connection, the
\* second only the later one
C39_Witness ==
  \E s \in Sinks : \E t \in Sinks \ {s} : \E c \in Pair :
    /\ Range(event_handlers) = {s, t}
    /\ sinkBuf[s] = <<[chan |-> c, n |-> 1], [chan |-> c, n |-> 2]>>
    /\ sinkBuf[t] = <<[chan |-> c, n |-> 2]>>
    /\ sinkClosed = {}

\* C40: process_message_queue and add_to_queue exclude each other: while
\* the flush holds the queue mutex no step changes the queue, and the
\* add_to_queue of a send that was waiting runs only when the flush is over.
\* It puts its message, which has not been delivered, behind everything
\* that is queued; and the trim at the end of a flush removes delivered
\* messages only and keeps the order of the rest.
C40_ConcurrentEnqueueNotLost ==
  [][\A c \in Chan :
       /\ (pc[c] \in {"flush", "blocked"} /\ pc'[c] \in {"flush", "blocked"}) =>
            queue'[c] = queue[c]
       /\ (mgrOp # NoOp /\ mgrOp.chan = c /\ mgrOp' = NoOp) =>
            /\ pc[c] \notin {"flush", "blocked"}
            /\ mgrOp.msg \notin MsgIds(delivered[c])
            /\ queue'[c] = Append(queue[c], mgrOp.msg)
       /\ (pc[c] = "flush" /\ pc'[c] = "recv_wait") =>
            /\ \A m \in Range(queue[c]) \ Range(queue'[c]) :
                 m \in MsgIds(delivered'[c])
            /\ queue'[c] = SelectSeq(queue[c], LAMBDA m : m \in Range(queue'[c]))
    ]_vars

\* both have completed: the first session is up and has been since its
\* handshake, its flush delivered message 1 and is over, and message 2,
\* submitted before the handshake, was added to the queue after the flush
C40_Witness ==
  \E c \in Chan :
    /\ sessions[c] = 1
    /\ status[c] = Connected
    /\ recv[c] = "live"
    /\ c \in clients
    /\ pc[c] = "recv_wait"
    /\ delivered[c] = <<[id |-> 1, sess |-> 1]>>
    /\ queue[c] = <<2>>
    /\ ret = Ret("send", c, 2, "queued")

====
